---- MODULE Spec2Model ----
(***************************************************************************)
(* basenames-cli: one command per process invocation, run against the     *)
(* on-chain registry, resolvers and reverse registrar.                     *)
(*                                                                         *)
(* Abstractions.  An address is its 20-byte value (hex case is only a      *)
(* spelling, so toLowerCase() on both sides of a comparison is equality of *)
(* values).  keccak256 is collision free: a node is the sequence of the    *)
(* labels hashed into it, root first.  The chain is driven only by the     *)
(* transactions of this process; a mined transaction succeeds only when    *)
(* the contract authorises the sender and may revert for any reason.       *)
(***************************************************************************)
EXTENDS Naturals, Sequences, FiniteSets, TLC

VARIABLES
    cmd,            \* the command of this invocation
    opts,           \* its options
    walletOk,       \* BASENAMES_PRIVATE_KEY is set
    pc,             \* position of the command
    regOwner,       \* Registry.owner(node)
    regResolver,    \* Registry.resolver(node)
    addrRec,        \* Resolver.addr(node, coinType), per resolver
    primaryName,    \* ReverseRegistrar.nameForAddr(contract)
    textRec,        \* Resolver.text(node, key) of the edited name, per resolver
    ethAddrRec,     \* Resolver.addr(node) of the edited name, per resolver
    signerPrimary,  \* the signer's own primary name
    available,      \* RegistrarController.available(label)
    contractOwner,  \* the target contract's owner(), NoOwnerFn when absent
    txs,            \* transactions submitted by this invocation, in order
    result,         \* per-stage results of the naming workflow
    warning,        \* a reverse-resolution warning was printed
    outcome,        \* what the command reported at its end
    resolverUsed,   \* the resolver stage 3 resolved
    addrReadError,  \* the addr() read of stage 3 threw and was caught
    network,        \* the --network option, null when absent
    netLog,         \* the steps run so far, each with the network it ran against
    indexResolver,  \* the indexed service's resolver of the queried name
    queryLog,       \* the index queries and controller reads made so far, in order
    answer,         \* what a lookup or a node computation returned
    env,            \* process.env: the RPC URLs and BASENAMES_NETWORK
    publicClients,  \* _publicClients, the cached read client of each network
    walletClients,  \* _walletClients, the cached signer client of each network
    created,        \* the clients constructed so far, in order
    handles         \* the handles returned to the requests so far, in order

vars == << cmd, opts, walletOk, pc, regOwner, regResolver, addrRec,
           primaryName, textRec, ethAddrRec, signerPrimary, available,
           contractOwner, txs, result, warning, outcome, resolverUsed,
           addrReadError, network, netLog, indexResolver, queryLog, answer,
           env, publicClients, walletClients, created, handles >>

----------------------------------------------------------------------------
(* Values *)

Null == "null"
ZeroAddress == "0x0"
Signer == "signer"
Other == "other"
ContractAddr == "0xCAFE"
NoOwnerFn == "no-owner-fn"

PublicResolver == "R1"     \* config.resolver
CustomResolver == "R2"
Resolvers == {PublicResolver, CustomResolver}

EmptyBytes == "0x"

\* a call that throws
Throw == "throw"

\* confirmations asked of waitForTransactionReceipt
CONFIRMATIONS == 2
\* blocks the chain is followed for after a transaction's inclusion
MaxConf == 2

----------------------------------------------------------------------------
(* Nodes *)

\* viem namehash over the labels of a dotted name, leftmost label first
RECURSIVE namehash(_)
namehash(labels) ==
    IF labels = << >> THEN << >>
    ELSE Append(namehash(Tail(labels)), Head(labels))

\* keccak256(encodePacked(parentNode, labelHash))
calculateSubnameNode(parentNode, labelHashValue) ==
    Append(parentNode, labelHashValue)

ParentDomain == << "alice", "basetest", "eth" >>
Label == "vault"
ParentNode == namehash(ParentDomain)
\* variant: the workflow writes to the parent node
SubnameNodeIsParent == ParentNode
SubnameNode == calculateSubnameNode(ParentNode, Label)
Nodes == {ParentNode, SubnameNode}

\* fullName = `${normalizedLabel}.${parentDomain}` and its spellings on chain
FullName == "vault.alice.basetest.eth"
FullNameMixedCase == "Vault.Alice.basetest.eth"
toLowerCase(s) == IF s = FullNameMixedCase THEN FullName ELSE s

----------------------------------------------------------------------------
(* Networks and names.  A name is the sequence of its labels, leftmost     *)
(* label first.                                                            *)

DEFAULT_NETWORK == "baseSepolia"
Mainnet == "base"

\* getNetworkConfig: network || DEFAULT_NETWORK (BASENAMES_NETWORK is unset)
getNetworkConfig(net) == IF net = Null THEN DEFAULT_NETWORK ELSE net

\* config.parentDomain
parentDomain(net) ==
    IF getNetworkConfig(net) = Mainnet THEN << "base", "eth" >>
    ELSE << "basetest", "eth" >>

\* config.chainId
chainId(net) == IF getNetworkConfig(net) = Mainnet THEN 8453 ELSE 84532

\* a bigint literal, given by its decimal digits, as two 16-bit limbs, the
\* high limb first
RECURSIVE bigint(_)
bigint(digits) ==
    IF digits = << >> THEN << 0, 0 >>
    ELSE LET front == bigint(SubSeq(digits, 1, Len(digits) - 1))
             low == front[2] * 10 + digits[Len(digits)]
         IN  << (front[1] * 10 + low \div 65536) % 65536, low % 65536 >>

\* 2147492101n and 2147568180n
BASE_MAINNET_COIN_TYPE == bigint(<< 2, 1, 4, 7, 4, 9, 2, 1, 0, 1 >>)
BASE_SEPOLIA_COIN_TYPE == bigint(<< 2, 1, 4, 7, 5, 6, 8, 1, 8, 0 >>)

\* variant: the coin type of Ethereum for every network
getCoinTypeOfEthereum(net) == bigint(<< 6, 0 >>)

\* getCoinType: the constant of the network's chain id, 60n for any other
getCoinType(net) ==
    IF chainId(net) = 8453 THEN BASE_MAINNET_COIN_TYPE
    ELSE IF chainId(net) = 84532 THEN BASE_SEPOLIA_COIN_TYPE
    ELSE bigint(<< 6, 0 >>)

\* variant: the parent node of the default network, whatever the network
getParentNodeOfDefault(net) == namehash(parentDomain(Null))

\* getParentNode: namehash(config.parentDomain)
getParentNode(net) == namehash(parentDomain(net))

\* normalize of viem/ens on the labels used here: folds case, throws on a
\* disallowed character
InvalidLabel == "b@d"
normalize(label) ==
    CASE label = "Alice" -> "alice"
      [] label = "Vault" -> "vault"
      [] label = "BaseTest" -> "basetest"
      [] label = "ETH" -> "eth"
      [] label = InvalidLabel -> Throw
      [] OTHER -> label

\* String.prototype.toLowerCase, label by label
toLowerCaseLabels(name) ==
    [i \in 1..Len(name) |->
        IF name[i] = InvalidLabel THEN name[i] ELSE normalize(name[i])]

\* variant: the label hash packed before the parent node
calculateBasenameNodeLabelFirst(label, net) ==
    << normalize(label) >> \o getParentNode(net)

\* calculateBasenameNode: keccak256(encodePacked(parentNode, keccak256(normalize(label))))
calculateBasenameNode(label, net) ==
    calculateSubnameNode(getParentNode(net), normalize(label))

\* name.toLowerCase().endsWith(parentSuffix.toLowerCase()), parentSuffix = "." + parentDomain
endsWithParentSuffix(name, net) ==
    LET suffix == parentDomain(net)
    IN  /\ Len(name) > Len(suffix)
        /\ SubSeq(toLowerCaseLabels(name), Len(name) - Len(suffix) + 1, Len(name))
             = toLowerCaseLabels(suffix)

\* extractLabel: the label path, the parent-domain suffix removed if present
extractLabel(fullName, net) ==
    IF endsWithParentSuffix(fullName, net)
    THEN SubSeq(fullName, 1, Len(fullName) - Len(parentDomain(net)))
    ELSE fullName

\* isSubname: label.includes(".")
isSubname(input, net) == Len(extractLabel(input, net)) > 1

\* getFullBasename throws: normalize rejects one of the parts
getFullBasenameThrows(labelPath) ==
    \E i \in 1..Len(labelPath) : normalize(labelPath[i]) = Throw

\* getFullBasename: every part normalized, then the parent domain
getFullBasename(labelPath, net) ==
    [i \in 1..Len(labelPath) |-> normalize(labelPath[i])] \o parentDomain(net)

\* what a normalizeBasename that throws leaves its caller with
Thrown == [ threw |-> TRUE ]

\* normalizeBasename: namehash of the full name for a subname, the basename
\* formula for a top-level name
normalizeBasename(input, net) ==
    LET labelPath == extractLabel(input, net)
    IN  IF getFullBasenameThrows(labelPath) THEN Thrown
        ELSE [ threw |-> FALSE,
               label |-> labelPath,
               fullName |-> getFullBasename(labelPath, net),
               node |-> IF isSubname(input, net)
                        THEN namehash(getFullBasename(labelPath, net))
                        ELSE calculateBasenameNode(normalize(labelPath[1]), net) ]

\* src/utils/node.ts, extractLabel: the first label of the label path
extractLabelNodeTs(fullName, net) == Head(extractLabel(fullName, net))

\* src/utils/node.ts, getFullBasename: `${normalize(label)}.${config.parentDomain}`
getFullBasenameNodeTs(label, net) == << normalize(label) >> \o parentDomain(net)

\* src/utils/node.ts, normalizeBasename: the basename formula on the first label
normalizeBasenameNodeTs(input, net) ==
    LET label == extractLabelNodeTs(input, net)
        normalizedLabel == normalize(label)
    IN  IF normalizedLabel = Throw THEN Thrown
        ELSE [ threw |-> FALSE,
               label |-> << normalizedLabel >>,
               fullName |-> getFullBasenameNodeTs(normalizedLabel, net),
               node |-> calculateBasenameNode(normalizedLabel, net) ]

----------------------------------------------------------------------------
(* Client handles.  A handle is the position of its client in `created`.   *)

Networks == {DEFAULT_NETWORK, Mainnet}
NoClient == 0

\* no environment variable but the private key is set
NoEnv ==
    [ BASE_RPC_URL_BASE |-> Null, BASE_RPC_URL_BASESEPOLIA |-> Null,
      BASE_RPC_URL |-> Null, BASENAMES_NETWORK |-> Null ]

\* the module is loaded: both maps are empty
NoClients ==
    /\ publicClients = [n \in Networks |-> NoClient]
    /\ walletClients = [n \in Networks |-> NoClient]
    /\ created = << >>
    /\ handles = << >>

\* a value of process.env that || and && take for true
truthy(v) == v # Null /\ v # ""

\* network || process.env.BASENAMES_NETWORK || "baseSepolia"
resolveNetwork(net) ==
    IF net # Null THEN net
    ELSE IF truthy(env.BASENAMES_NETWORK) THEN env.BASENAMES_NETWORK
    ELSE DEFAULT_NETWORK

\* config.rpcUrl
configRpcUrl(net) ==
    IF net = Mainnet THEN "https://mainnet.base.org" ELSE "https://sepolia.base.org"

\* variant: the generic URL is taken before the network-specific one
rpcUrlGenericFirst(net) ==
    IF truthy(env.BASE_RPC_URL) THEN env.BASE_RPC_URL
    ELSE IF net = Mainnet /\ truthy(env.BASE_RPC_URL_BASE) THEN env.BASE_RPC_URL_BASE
    ELSE IF net = DEFAULT_NETWORK /\ truthy(env.BASE_RPC_URL_BASESEPOLIA)
    THEN env.BASE_RPC_URL_BASESEPOLIA
    ELSE configRpcUrl(net)

\* createBasenamesPublicClient, createBasenamesWalletClient: rpcUrl
rpcUrl(net) ==
    IF net = Mainnet /\ truthy(env.BASE_RPC_URL_BASE) THEN env.BASE_RPC_URL_BASE
    ELSE IF net = DEFAULT_NETWORK /\ truthy(env.BASE_RPC_URL_BASESEPOLIA)
    THEN env.BASE_RPC_URL_BASESEPOLIA
    ELSE IF truthy(env.BASE_RPC_URL) THEN env.BASE_RPC_URL
    ELSE configRpcUrl(net)

\* createBasenamesPublicClient: createPublicClient({ chain, transport: http(rpcUrl) })
createBasenamesPublicClient(net) ==
    [ kind |-> "public", network |-> net, rpcUrl |-> rpcUrl(net), ledger |-> FALSE ]

\* createBasenamesWalletClient: createWalletClient({ account, chain, transport })
createBasenamesWalletClient(net, useLedger) ==
    [ kind |-> "wallet", network |-> net, rpcUrl |-> rpcUrl(net), ledger |-> useLedger ]

\* variant: the map is never found to hold the network
hasNever(cache, net) == FALSE

\* _publicClients.has(net), _walletClients.has(net)
has(cache, net) == cache[net] # NoClient

----------------------------------------------------------------------------
(* Reads of the authoritative contracts *)

\* how a registry resolver() read can end
ReadOutcomes == {"ok", "transport", "reverted"}

\* getOwner: the zero owner and every read error become null
getOwner(node, readOk) ==
    IF ~readOk THEN Null
    ELSE IF regOwner[node] = ZeroAddress THEN Null
    ELSE regOwner[node]

\* getResolver: the zero resolver becomes null, a transport error is
\* rethrown, every other read error becomes null
getResolver(node, read) ==
    IF read = "transport" THEN Throw
    ELSE IF read = "reverted" THEN Null
    ELSE IF regResolver[node] = ZeroAddress THEN Null
    ELSE regResolver[node]

\* getResolverFromParent: parentResolver || config.resolver
getResolverFromParent(parentNode, read) ==
    LET parentResolver == getResolver(parentNode, read)
    IN  IF parentResolver = Null THEN PublicResolver ELSE parentResolver

\* variant: a parent without an owner passes the check
isParentOwnerOrUnowned(ownerAddress) ==
    ownerAddress = Null \/ ownerAddress = Signer

\* checkParentOwnership: ownerAddress?.toLowerCase() === signerAddress.toLowerCase()
isParentOwner(ownerAddress) == ownerAddress # Null /\ ownerAddress = Signer

\* createSubname: existingOwner && existingOwner.toLowerCase() === signerAddress.toLowerCase()
ownedBySigner(existingOwner) == existingOwner # Null /\ existingOwner = Signer

\* createSubname: existingOwner && existingOwner !== "0x000...0"
ownedByAnother(existingOwner) ==
    existingOwner # Null /\ existingOwner # ZeroAddress

\* setAddressRecordWithCoinType: the 20-byte record equals encodePacked(address)
addressAlreadySet(existingAddrBytes, address) ==
    /\ existingAddrBytes # Throw
    /\ existingAddrBytes # EmptyBytes
    /\ existingAddrBytes = address

\* setReverseResolutionL2: existingName && existingName.toLowerCase() === name.toLowerCase()
nameAlreadySet(existingName, name) ==
    /\ existingName # Throw
    /\ existingName # ""
    /\ toLowerCase(existingName) = toLowerCase(name)

----------------------------------------------------------------------------
(* Transactions *)

\* wallet.writeContract: the request handed to the chain
Tx(stage, fn, node, to, value, simulated) ==
    [ stage |-> stage, fn |-> fn, node |-> node, to |-> to, value |-> value,
      status |-> "pending", conf |-> 0, simulated |-> simulated ]

SetSubnodeRecord == "setSubnodeRecord(bytes32,bytes32,address,address,uint64)"
SetAddrCoinType == "setAddr(bytes32,uint256,bytes)"
SetNameForAddr == "setNameForAddr(address,address,address,string)"
SetText == "setText(bytes32,string,string)"
SetAddr == "setAddr(bytes32,address)"
Register == "register(RegisterRequest)"

\* the contract lets the signer make this call
Authorized(tx) ==
    CASE tx.fn = SetSubnodeRecord -> regOwner[ParentNode] = Signer
      [] tx.fn = SetAddrCoinType  -> regOwner[tx.node] = Signer
      [] tx.fn = SetNameForAddr   -> tx.node = Signer \/ contractOwner = Signer
      [] tx.fn = SetText          -> regOwner[tx.node] = Signer
      [] tx.fn = SetAddr          -> regOwner[tx.node] = Signer
      [] tx.fn = Register         -> available

\* variant: the wait returns on inclusion, at one confirmation
receiptReadyOnInclusion(tx) == tx.status # "pending"

\* waitForTransactionReceipt({ hash, confirmations: 2 }) returns
receiptReady(tx) == tx.status # "pending" /\ tx.conf >= CONFIRMATIONS

LastTx == txs[Len(txs)]

----------------------------------------------------------------------------
(* The process *)

Stages == 1..4
NoResults == [s \in Stages |-> "none"]

\* options of `basenames name`: each way the input can be refused, and the
\* flags of a run whose input is accepted
NameOptions ==
    { o \in [ noReverse : BOOLEAN, checkCompatibility : BOOLEAN,
              validAddress : BOOLEAN, validName : BOOLEAN ] :
        (~o.validAddress \/ ~o.validName)
            => (~o.noReverse /\ ~o.checkCompatibility
                /\ (o.validAddress \/ o.validName)) }

\* the --network option: absent, or the network that is not the default
NetworkOptions == {Null, Mainnet}

\* alice.base.eth, the node of the edited name on the other network
MainnetNode == calculateBasenameNode("alice", Mainnet)
AllNodes == Nodes \cup {MainnetNode}

\* registries whose nodes outside `set` have no resolver
ResolverTables(set) ==
    { f \in [AllNodes -> {ZeroAddress} \cup Resolvers] :
        \A n \in AllNodes \ set : f[n] = ZeroAddress }

InitChain ==
    /\ regOwner \in [Nodes -> {ZeroAddress, Signer, Other}]
    /\ regResolver \in ResolverTables(Nodes)
    /\ addrRec \in [Resolvers -> [{SubnameNode} -> {EmptyBytes, ContractAddr}]]
    /\ primaryName \in {"", FullNameMixedCase}
    /\ contractOwner \in {NoOwnerFn, Signer, Other}

\* chain state the naming workflow does not read
InitEditRecords ==
    /\ textRec = [r \in Resolvers |-> ""]
    /\ ethAddrRec = [r \in Resolvers |-> ZeroAddress]
    /\ signerPrimary = ""
    /\ available = FALSE

InitName ==
    /\ cmd = "name"
    /\ opts \in NameOptions
    /\ walletOk \in BOOLEAN
    /\ walletOk = FALSE => opts = [ noReverse |-> FALSE, checkCompatibility |-> FALSE,
                                    validAddress |-> TRUE, validName |-> TRUE ]
    /\ network \in NetworkOptions
    /\ network # Null => (opts.validAddress /\ opts.validName /\ ~opts.noReverse)
    /\ InitChain
    /\ InitEditRecords
    /\ indexResolver = Null

\* the name the edit and register commands are given: alice.basetest.eth,
\* as a label or in full, and names with a label that normalize rejects
EditNode == ParentNode
EditName == "alice.basetest.eth"
EditNameInputs ==
    { << "alice" >>, << "Alice", "basetest", "eth" >>, << InvalidLabel >>,
      << "alice", InvalidLabel, "basetest", "eth" >> }
TextValues == {"", "null", "NULL", "hello"}
EditCmds == {"editTxt", "editAddress", "editPrimary"}

EditOptions ==
    [ resolverAddress : {Null, CustomResolver}, value : TextValues,
      name : EditNameInputs, validAddress : BOOLEAN, primary : BOOLEAN ]

\* chain state of an edit or register run: the edited name's registry entry
InitEdit ==
    /\ cmd \in EditCmds \cup {"register"}
    /\ opts \in EditOptions
    /\ cmd # "editTxt" => opts.value = ""
    /\ cmd \notin {"editAddress", "register"} => opts.validAddress
    /\ cmd # "register" => ~opts.primary
    /\ cmd \in {"editPrimary", "register"} => opts.resolverAddress = Null
    /\ walletOk \in BOOLEAN
    /\ network \in NetworkOptions
    /\ regOwner \in [Nodes -> {ZeroAddress, Signer, Other}]
    /\ regOwner[SubnameNode] = ZeroAddress
    /\ regResolver \in ResolverTables({EditNode})
    /\ addrRec = [r \in Resolvers |-> [n \in {SubnameNode} |-> EmptyBytes]]
    /\ primaryName = ""
    /\ contractOwner = NoOwnerFn
    /\ textRec = [r \in Resolvers |-> ""]
    /\ ethAddrRec = [r \in Resolvers |-> ZeroAddress]
    /\ signerPrimary \in {"", EditName}
    /\ available \in BOOLEAN
    /\ cmd # "register" => ~available
    /\ cmd = "register" => (available <=> regOwner[EditNode] = ZeroAddress)
    /\ indexResolver = Null

\* the names a resolver lookup is given
LookupNameInputs ==
    { << "alice" >>, << "Alice", "basetest", "eth" >>,
      << "vault", "alice", "basetest", "eth" >>, << InvalidLabel >>,
      << "vault", InvalidLabel, "basetest", "eth" >> }

\* a resolver lookup: the registry and the index each hold a resolver of
\* the queried name, or none
InitLookup ==
    /\ cmd = "resolver"
    /\ opts \in [ name : LookupNameInputs ]
    /\ network \in NetworkOptions
    /\ IF normalizeBasename(opts.name, network).threw THEN TRUE
       ELSE normalizeBasename(opts.name, network).node \in AllNodes
    /\ walletOk = FALSE
    /\ regOwner = [n \in Nodes |-> Other]
    /\ regResolver \in ResolverTables(AllNodes)
    /\ addrRec = [r \in Resolvers |-> [n \in {SubnameNode} |-> EmptyBytes]]
    /\ primaryName = ""
    /\ contractOwner = NoOwnerFn
    /\ InitEditRecords
    /\ indexResolver \in {Null} \cup Resolvers

Init ==
    /\ InitName \/ InitEdit \/ InitLookup
    /\ pc = "start"
    /\ txs = << >>
    /\ result = NoResults
    /\ warning = FALSE
    /\ outcome = "running"
    /\ resolverUsed = Null
    /\ addrReadError = FALSE
    /\ netLog = {}
    /\ queryLog = << >>
    /\ answer = Null
    /\ env = NoEnv
    /\ NoClients

chain == << regOwner, regResolver, addrRec, primaryName, textRec, ethAddrRec,
           signerPrimary, available, contractOwner >>
inputs == << cmd, opts, walletOk, network >>
clients == << env, publicClients, walletClients, created, handles >>
query == << indexResolver, queryLog, answer >>

\* the network argument the command's calls are given: the edit commands
\* leave it out, the other commands pass options.network
networkArg == IF cmd \in EditCmds THEN Null ELSE network

\* one step and the network whose configuration and clients it used
Step(step, net) == [ step |-> step, network |-> getNetworkConfig(net) ]

\* the steps an action ran
Log(steps) == netLog' = netLog \cup {Step(st, networkArg) : st \in steps}

\* the steps an action ran, with the submission of the transaction it sent
LogCalls(steps) ==
    netLog' = netLog \cup {Step(st, networkArg) : st \in steps}
                     \cup (IF txs' # txs THEN {Step("submit", networkArg)} ELSE {})

\* the steps of setAddressRecordWithCoinType: the resolver read, the
\* addr(node, coinType) read on the network's client and the submission
LogAddrRead(coinType) ==
    netLog' = netLog \cup {Step("read", networkArg)}
                     \cup {[ step |-> "addr", network |-> getNetworkConfig(networkArg),
                             coinType |-> coinType ]}
                     \cup (IF txs' # txs THEN {Step("submit", networkArg)} ELSE {})

\* variant: a fatal error of stage s returns without a message
AbortSilently(s) ==
    /\ pc' = "done"
    /\ outcome' = outcome
    /\ result' = result

\* a fatal error of stage s: print it and return
Abort(s) ==
    /\ pc' = "done"
    /\ outcome' = "aborted"
    /\ result' = [result EXCEPT ![s] = "failed"]

\* nameContract, up to step 1: validate the address and the label
nameContractStart ==
    /\ cmd = "name" /\ pc = "start"
    /\ IF ~opts.validAddress \/ ~opts.validName
       THEN /\ pc' = "done"
            /\ outcome' = "rejected"
       ELSE /\ pc' = IF opts.checkCompatibility THEN "compat" ELSE "step1"
            /\ outcome' = outcome
    /\ UNCHANGED << inputs, clients, chain, txs, result, warning, resolverUsed, addrReadError,
                    netLog, query >>

\* checkContractCompatibility: informational read of owner()
checkContractCompatibility ==
    /\ cmd = "name" /\ pc = "compat"
    /\ pc' = "step1"
    /\ Log({"read"})
    /\ UNCHANGED << inputs, clients, chain, txs, result, warning, outcome, resolverUsed,
                    addrReadError, query >>

\* nameContract step 1: checkParentOwnership
checkParentOwnership ==
    /\ cmd = "name" /\ pc = "step1"
    /\ \E readOk \in BOOLEAN :
         IF walletOk /\ isParentOwner(getOwner(ParentNode, readOk))
         THEN /\ pc' = "step2"
              /\ result' = [result EXCEPT ![1] = "ok"]
              /\ outcome' = outcome
         ELSE Abort(1)
    /\ Log(IF walletOk THEN {"read"} ELSE {})
    /\ UNCHANGED << inputs, clients, chain, txs, warning, resolverUsed, addrReadError, query >>

\* nameContract step 2: createSubname up to the submitted transaction
createSubname ==
    /\ cmd = "name" /\ pc = "step2"
    /\ \E readOk \in BOOLEAN, read \in ReadOutcomes, sent \in BOOLEAN :
         LET existingOwner == getOwner(SubnameNode, readOk)
             resolver == getResolverFromParent(ParentNode, read)
         IN  IF ~walletOk THEN Abort(2) /\ txs' = txs
             ELSE IF ownedBySigner(existingOwner)
             THEN /\ result' = [result EXCEPT ![2] = "noop"]
                  /\ pc' = "step3"
                  /\ UNCHANGED << txs, outcome >>
             ELSE IF ownedByAnother(existingOwner) THEN Abort(2) /\ txs' = txs
             ELSE IF resolver = Throw \/ ~sent THEN Abort(2) /\ txs' = txs
             ELSE /\ txs' = Append(txs, Tx(2, SetSubnodeRecord, SubnameNode,
                                           "registry", resolver, FALSE))
                  /\ pc' = "wait2"
                  /\ UNCHANGED << result, outcome >>
    /\ LogCalls(IF walletOk THEN {"read"} ELSE {})
    /\ UNCHANGED << inputs, clients, chain, warning, resolverUsed, addrReadError, query >>

\* createSubname: waitForTransactionReceipt, then return txHash
createSubnameWait ==
    /\ cmd = "name" /\ pc = "wait2"
    /\ \E thrown \in BOOLEAN :
         IF thrown THEN Abort(2)
         ELSE /\ receiptReady(LastTx)
              /\ result' = [result EXCEPT ![2] = "submitted"]
              /\ pc' = "step3"
              /\ outcome' = outcome
    /\ Log({"wait"})
    /\ UNCHANGED << inputs, clients, chain, txs, warning, resolverUsed, addrReadError, query >>

\* nameContract step 3: getResolverFromParent(parentNode), then
\* setAddressRecordWithCoinType up to the submitted transaction
setAddressRecordWithCoinType ==
    /\ cmd = "name" /\ pc = "step3"
    /\ \E read \in ReadOutcomes, readOk \in BOOLEAN, sent \in BOOLEAN :
         LET resolver == getResolverFromParent(ParentNode, read)
             coinType == getCoinType(network)
             existingAddrBytes ==
                 IF readOk THEN addrRec[resolver][SubnameNode] ELSE Throw
         IN  IF resolver = Throw \/ ~walletOk
             THEN /\ Abort(3) /\ UNCHANGED << txs, resolverUsed, addrReadError >>
                  /\ LogCalls({"read"})
             ELSE /\ resolverUsed' = resolver
                  /\ addrReadError' = ~readOk
                  /\ IF addressAlreadySet(existingAddrBytes, ContractAddr)
                     THEN /\ result' = [result EXCEPT ![3] = "noop"]
                          /\ pc' = "step4"
                          /\ UNCHANGED << txs, outcome >>
                     ELSE IF ~sent THEN Abort(3) /\ txs' = txs
                     ELSE /\ txs' = Append(txs, Tx(3, SetAddrCoinType, SubnameNode,
                                                   resolver, ContractAddr, FALSE)
                                                @@ [ coinType |-> coinType,
                                                     chainId |-> chainId(network) ])
                          /\ pc' = "wait3"
                          /\ UNCHANGED << result, outcome >>
                  /\ LogAddrRead(coinType)
    /\ UNCHANGED << inputs, clients, chain, warning, query >>

\* setAddressRecordWithCoinType: waitForTransactionReceipt, then return txHash
setAddressRecordWait ==
    /\ cmd = "name" /\ pc = "wait3"
    /\ \E thrown \in BOOLEAN :
         IF thrown THEN Abort(3)
         ELSE /\ receiptReady(LastTx)
              /\ result' = [result EXCEPT ![3] = "submitted"]
              /\ pc' = "step4"
              /\ outcome' = outcome
    /\ Log({"wait"})
    /\ UNCHANGED << inputs, clients, chain, txs, warning, resolverUsed, addrReadError, query >>

\* variant: the catch branch of step 4 returns like those of steps 1-3
WarnFatal ==
    /\ warning' = TRUE
    /\ result' = [result EXCEPT ![4] = "failed"]
    /\ pc' = "done"
    /\ outcome' = "aborted"

\* variant: the catch branch of step 4 runs the step again
WarnRetry ==
    /\ warning' = TRUE
    /\ result' = [result EXCEPT ![4] = "failed"]
    /\ pc' = "step4"
    /\ outcome' = outcome

\* nameContract step 4, catch branch: warn and go on to the summary
Warn ==
    /\ warning' = TRUE
    /\ result' = [result EXCEPT ![4] = "failed"]
    /\ pc' = "summary"
    /\ outcome' = outcome

\* variant: a failed owner() read is caught and yields the zero address
readContractOwnerCaught(readOk) ==
    IF readOk /\ contractOwner # NoOwnerFn THEN contractOwner ELSE ZeroAddress

\* setReverseResolutionL2: the contract's owner(), which throws when the
\* read fails or the contract has no such function
readContractOwner(readOk) ==
    IF readOk /\ contractOwner # NoOwnerFn THEN contractOwner ELSE Throw

\* variant: stage 4 runs whatever the caller asked
noReverseIgnored == FALSE

\* nameContract: if (!noReverse) { step 4 } else "Skipping reverse resolution"
noReverse == opts.noReverse

\* nameContract step 4: skipped on --no-reverse, else
\* setReverseResolutionL2 up to the submitted transaction
setReverseResolutionL2 ==
    /\ cmd = "name" /\ pc = "step4"
    /\ \E readOk \in BOOLEAN, ownerReadOk \in BOOLEAN, sent \in BOOLEAN :
         LET existingName == IF readOk THEN primaryName ELSE Throw
             ownerAddress == readContractOwner(ownerReadOk)
         IN  IF noReverse
             THEN /\ result' = [result EXCEPT ![4] = "skipped"]
                  /\ pc' = "summary"
                  /\ UNCHANGED << txs, warning, outcome >>
             ELSE IF ~walletOk THEN Warn /\ txs' = txs
             ELSE IF nameAlreadySet(existingName, FullName)
             THEN /\ result' = [result EXCEPT ![4] = "noop"]
                  /\ pc' = "summary"
                  /\ UNCHANGED << txs, warning, outcome >>
             ELSE IF ownerAddress = Throw \/ ~sent THEN Warn /\ txs' = txs
             ELSE /\ txs' = Append(txs, Tx(4, SetNameForAddr, ContractAddr,
                                           "reverseRegistrar", FullName, FALSE))
                  /\ pc' = "wait4"
                  /\ UNCHANGED << result, warning, outcome >>
    /\ LogCalls(IF ~noReverse /\ walletOk THEN {"read"} ELSE {})
    /\ UNCHANGED << inputs, clients, chain, resolverUsed, addrReadError, query >>

\* setReverseResolutionL2: waitForTransactionReceipt, then return txHash
setReverseResolutionWait ==
    /\ cmd = "name" /\ pc = "wait4"
    /\ \E thrown \in BOOLEAN :
         IF thrown THEN Warn
         ELSE /\ receiptReady(LastTx)
              /\ result' = [result EXCEPT ![4] = "submitted"]
              /\ pc' = "summary"
              /\ UNCHANGED << warning, outcome >>
    /\ Log({"wait"})
    /\ UNCHANGED << inputs, clients, chain, txs, resolverUsed, addrReadError, query >>

\* nameContract: "Contract naming complete!"
nameContractSummary ==
    /\ cmd = "name" /\ pc = "summary"
    /\ pc' = "done"
    /\ outcome' = "complete"
    /\ UNCHANGED << inputs, clients, chain, txs, result, warning, resolverUsed, addrReadError,
                    netLog, query >>

----------------------------------------------------------------------------
(* The edit commands *)

\* an edit or register command prints an error and returns
Fail(what) ==
    /\ pc' = "done"
    /\ outcome' = what
    /\ txs' = txs

\* the command goes on to wait for the transaction it sent
Sent(tx) ==
    /\ txs' = Append(txs, tx)
    /\ pc' = "wait"
    /\ outcome' = outcome

\* variant: the value is written as given
actualValueAsGiven(value) == value

\* setTxt: value === "null" ? "" : value
actualValue(value) == IF value = "null" THEN "" ELSE value

\* edit commands: receipt.status === "success" ? set : "Transaction reverted"
reportReceipt(status) == IF status = "success" THEN "success" ELSE "reverted"

\* waitForTransactionReceipt({ hash, confirmations: 2 }) and the report
Confirm ==
    /\ pc = "wait"
    /\ \E thrown \in BOOLEAN :
         IF thrown THEN Fail("error")
         ELSE /\ receiptReady(LastTx)
              /\ pc' = "done"
              /\ outcome' = reportReceipt(LastTx.status)
              /\ txs' = txs
    /\ Log({"wait"})
    /\ UNCHANGED << inputs, clients, chain, result, warning, resolverUsed, addrReadError, query >>

\* variant: an edit without a resolver in the registry writes to config.resolver
editResolverOrDefault(node, read) ==
    IF opts.resolverAddress # Null THEN opts.resolverAddress
    ELSE IF getResolver(node, read) = Null THEN PublicResolver
    ELSE getResolver(node, read)

\* the resolver an edit writes to: the one supplied, else getResolver(node)
editResolver(node, read) ==
    IF opts.resolverAddress # Null THEN opts.resolverAddress
    ELSE getResolver(node, read)

\* the steps of an edit up to its transaction: the node computation once the
\* signer is known, the registry read when no resolver is supplied
editSteps(valid, lookup) ==
    IF ~valid THEN {}
    ELSE IF normalizeBasenameNodeTs(opts.name, networkArg).threw THEN {"node"}
    ELSE IF lookup THEN {"node", "read"}
    ELSE {"node"}

\* setTxt up to "Transaction sent": setTextRecordOnChain
setTxt ==
    /\ cmd = "editTxt" /\ pc = "start"
    /\ \E read \in ReadOutcomes, sent \in BOOLEAN :
         LET name == normalizeBasenameNodeTs(opts.name, networkArg)
         IN  IF ~walletOk \/ name.threw THEN Fail("error")
             ELSE LET resolver == editResolver(name.node, read)
                  IN  IF resolver = Throw THEN Fail("error")
                      ELSE IF resolver = Null THEN Fail("noResolver")
                      ELSE IF ~sent THEN Fail("error")
                      ELSE Sent(Tx(0, SetText, name.node, resolver,
                                   actualValue(opts.value), FALSE))
    /\ LogCalls(editSteps(walletOk, opts.resolverAddress = Null))
    /\ UNCHANGED << inputs, clients, chain, result, warning, resolverUsed, addrReadError, query >>

setTxtConfirm == cmd = "editTxt" /\ Confirm

\* setAddress up to "Transaction sent": setAddressRecordOnChain
setAddress ==
    /\ cmd = "editAddress" /\ pc = "start"
    /\ \E read \in ReadOutcomes, sent \in BOOLEAN :
         LET name == normalizeBasenameNodeTs(opts.name, networkArg)
         IN  IF ~walletOk \/ ~opts.validAddress \/ name.threw THEN Fail("error")
             ELSE LET resolver == editResolver(name.node, read)
                  IN  IF resolver = Throw THEN Fail("error")
                      ELSE IF resolver = Null THEN Fail("noResolver")
                      ELSE IF ~sent THEN Fail("error")
                      ELSE Sent(Tx(0, SetAddr, name.node, resolver, Other, FALSE))
    /\ LogCalls(editSteps(walletOk /\ opts.validAddress, opts.resolverAddress = Null))
    /\ UNCHANGED << inputs, clients, chain, result, warning, resolverUsed, addrReadError, query >>

setAddressConfirm == cmd = "editAddress" /\ Confirm

\* setPrimary up to "Transaction sent": setPrimaryNameOnChain
setPrimary ==
    /\ cmd = "editPrimary" /\ pc = "start"
    /\ \E sent \in BOOLEAN :
         IF \/ ~walletOk
            \/ normalizeBasenameNodeTs(opts.name, networkArg).threw
            \/ ~sent
         THEN Fail("error")
         ELSE Sent(Tx(0, SetNameForAddr, Signer, "reverseRegistrar",
                      EditName, FALSE))
    /\ LogCalls(editSteps(walletOk, FALSE))
    /\ UNCHANGED << inputs, clients, chain, result, warning, resolverUsed, addrReadError, query >>

setPrimaryConfirm == cmd = "editPrimary" /\ Confirm

----------------------------------------------------------------------------
(* The register command *)

\* what the log keeps of a read of the registrar controller
controllerEntry(fn, readOk, value) ==
    [ source |-> fn, outcome |-> IF readOk THEN value ELSE "error" ]

\* checkAvailable: RegistrarController.available(normalizedName)
checkAvailable == available

\* variant: the result of the availability check is not consulted
isAvailableAssumed(reported) == TRUE

\* register: const isAvailable = await checkAvailable(...); if (!isAvailable) return
isAvailable(reported) == reported

\* register: const resolverData = [], the records the request carries
resolverData == {}

\* registerBasename: the RegisterRequest
RegisterRequest(name, owner, data, reverseRecord) ==
    [ name |-> name, owner |-> owner, resolver |-> PublicResolver,
      data |-> data, reverseRecord |-> reverseRecord ]

\* the full name of the registered label on the network of the call
registeredName(net) ==
    IF getNetworkConfig(net) = Mainnet THEN "alice.base.eth" ELSE EditName

\* register up to the call of registerBasename: checkAvailable, getRegisterPrice
register ==
    /\ cmd = "register" /\ pc = "start"
    /\ \E availableRead \in BOOLEAN, priceRead \in BOOLEAN :
         IF \/ ~walletOk \/ ~opts.validAddress
            \/ normalizeBasenameNodeTs(opts.name, networkArg).threw
         THEN Fail("error") /\ queryLog' = queryLog
         ELSE LET checked == controllerEntry("available", availableRead,
                                             IF checkAvailable THEN "true" ELSE "false")
                  priced == controllerEntry("registerPrice", priceRead, "ok")
              IN  IF ~availableRead
                  THEN Fail("error") /\ queryLog' = Append(queryLog, checked)
                  ELSE IF ~isAvailable(checkAvailable)
                  THEN Fail("unavailable") /\ queryLog' = Append(queryLog, checked)
                  ELSE /\ queryLog' = queryLog \o << checked, priced >>
                       /\ IF ~priceRead THEN Fail("error")
                          ELSE /\ pc' = "register"
                               /\ UNCHANGED << txs, outcome >>
    /\ Log(editSteps(walletOk /\ opts.validAddress, TRUE))
    /\ UNCHANGED << inputs, clients, chain, result, warning, resolverUsed, addrReadError,
                    indexResolver, answer >>

\* client.simulateContract: throws when the read fails or the call would revert
simulateContract(tx, readOk) == readOk /\ Authorized(tx)

\* registerBasename: getRegisterPrice, simulateContract, writeContract
registerBasename ==
    /\ cmd = "register" /\ pc = "register"
    /\ \E priceRead \in BOOLEAN, readOk \in BOOLEAN, sent \in BOOLEAN :
         LET tx == Tx(0, Register,
                      normalizeBasenameNodeTs(opts.name, networkArg).node,
                      "registrarController",
                      RegisterRequest(registeredName(networkArg), Signer,
                                      resolverData, opts.primary),
                      TRUE)
         IN  /\ queryLog' = Append(queryLog,
                                   controllerEntry("registerPrice", priceRead, "ok"))
             /\ IF ~priceRead \/ ~simulateContract(tx, readOk) \/ ~sent
                THEN Fail("error")
                ELSE Sent(tx)
    /\ LogCalls({"read"})
    /\ UNCHANGED << inputs, clients, chain, result, warning, resolverUsed, addrReadError,
                    indexResolver, answer >>

registerConfirm == cmd = "register" /\ Confirm

----------------------------------------------------------------------------
(* The resolver lookup *)

\* how a query of the indexed service can end
IndexOutcomes == {"ok", "timeout", "transport"}

\* getDomainByName(fullName, network)?.resolver?.address: the index's
\* resolver of the name, null when the response has none; throws on a
\* timeout or a transport error
getDomainByName(response) ==
    IF response = "ok" THEN indexResolver ELSE Throw

\* variant: an error of the index query is left to the outer handler
rethrown(ensNodeData) == ensNodeData

\* getResolverAddress, inner try/catch: an error of the index query is
\* swallowed and the resolver stays null
swallowed(ensNodeData) == IF ensNodeData = Throw THEN Null ELSE ensNodeData

\* variant: a value of the index is not returned, the lookup goes on
indexMiss(ensNodeData) == FALSE

\* getResolverAddress: if (ensNodeData?.resolver?.address)
indexHit(ensNodeData) == ensNodeData # Null

\* what the log keeps of an index query
indexEntry(response) ==
    [ source |-> "index",
      outcome |-> IF response # "ok" THEN response
                  ELSE IF indexResolver = Null THEN "absent" ELSE "value" ]

\* the lookup prints its result and returns
Answer(what, value) ==
    /\ pc' = "done"
    /\ outcome' = what
    /\ answer' = value

\* getResolverAddress: normalizeBasename(name, network)
getResolverAddress ==
    /\ cmd = "resolver" /\ pc = "start"
    /\ IF normalizeBasename(opts.name, networkArg).threw
       THEN Answer("error", Null)
       ELSE /\ pc' = "index"
            /\ UNCHANGED << outcome, answer >>
    /\ Log({"node"})
    /\ UNCHANGED << inputs, clients, chain, txs, result, warning, resolverUsed, addrReadError,
                    indexResolver, queryLog >>

\* getResolverAddress: the ENSNode query
getResolverFromIndex ==
    /\ cmd = "resolver" /\ pc = "index"
    /\ \E response \in IndexOutcomes :
         LET ensNodeData == swallowed(getDomainByName(response))
         IN  /\ queryLog' = Append(queryLog, indexEntry(response))
             /\ IF ensNodeData = Throw THEN Answer("error", Null)
                ELSE IF indexHit(ensNodeData) THEN Answer("fromIndex", ensNodeData)
                ELSE /\ pc' = "onchain"
                     /\ UNCHANGED << outcome, answer >>
    /\ Log({"index"})
    /\ UNCHANGED << inputs, clients, chain, txs, result, warning, resolverUsed, addrReadError,
                    indexResolver >>

\* getResolverAddress: the on-chain query, getResolver(node, network)
getResolverOnChain ==
    /\ cmd = "resolver" /\ pc = "onchain"
    /\ \E read \in ReadOutcomes :
         LET resolver == getResolver(normalizeBasename(opts.name, networkArg).node, read)
         IN  /\ queryLog' = Append(queryLog, [ source |-> "registry", outcome |-> read ])
             /\ IF resolver = Throw THEN Answer("error", Null)
                ELSE IF resolver = Null THEN Answer("notFound", Null)
                ELSE Answer("onchain", resolver)
    /\ Log({"read"})
    /\ UNCHANGED << inputs, clients, chain, txs, result, warning, resolverUsed, addrReadError,
                    indexResolver >>

----------------------------------------------------------------------------
(* The chain *)

Pending == {i \in 1..Len(txs) : txs[i].status = "pending"}
Included == {i \in 1..Len(txs) : txs[i].status # "pending"}

\* RegistrarController.register: the address the records of the request
\* set, the record left as it is when the request carries none
registeredAddr(request, existing) ==
    IF \E d \in request.data : d.fn = SetAddr
    THEN (CHOOSE d \in request.data : d.fn = SetAddr).value
    ELSE existing

\* the state change of a successful call
Apply(tx) ==
    /\ regOwner' = IF tx.fn = SetSubnodeRecord
                   THEN [regOwner EXCEPT ![tx.node] = Signer]
                   ELSE IF tx.fn = Register /\ tx.node \in DOMAIN regOwner
                   THEN [regOwner EXCEPT ![tx.node] = tx.value.owner]
                   ELSE regOwner
    /\ regResolver' = IF tx.fn = SetSubnodeRecord
                      THEN [regResolver EXCEPT ![tx.node] = tx.value]
                      ELSE IF tx.fn = Register
                      THEN [regResolver EXCEPT ![tx.node] = tx.value.resolver]
                      ELSE regResolver
    /\ addrRec' = IF tx.fn = SetAddrCoinType
                  THEN [addrRec EXCEPT ![tx.to][tx.node] = tx.value]
                  ELSE addrRec
    /\ primaryName' = IF tx.fn = SetNameForAddr /\ tx.node = ContractAddr
                      THEN tx.value ELSE primaryName
    /\ signerPrimary' = IF tx.fn = SetNameForAddr /\ tx.node = Signer
                        THEN tx.value
                        ELSE IF tx.fn = Register /\ tx.value.reverseRecord
                        THEN tx.value.name
                        ELSE signerPrimary
    /\ textRec' = IF tx.fn = SetText
                  THEN [textRec EXCEPT ![tx.to] = tx.value] ELSE textRec
    /\ ethAddrRec' = IF tx.fn = SetAddr
                     THEN [ethAddrRec EXCEPT ![tx.to] = tx.value]
                     ELSE IF tx.fn = Register
                     THEN [ethAddrRec EXCEPT ![tx.value.resolver] =
                              registeredAddr(tx.value, @)]
                     ELSE ethAddrRec
    /\ available' = IF tx.fn = Register THEN FALSE ELSE available

\* a pending transaction is included in a block, successful or reverted
MineTx ==
    \E i \in Pending, ok \in BOOLEAN :
        /\ \A j \in Pending : i <= j
        /\ IF ok /\ Authorized(txs[i])
           THEN /\ txs' = [txs EXCEPT ![i].status = "success", ![i].conf = 1]
                /\ Apply(txs[i])
           ELSE /\ txs' = [txs EXCEPT ![i].status = "reverted", ![i].conf = 1]
                /\ UNCHANGED << regOwner, regResolver, addrRec, primaryName,
                                signerPrimary, textRec, ethAddrRec, available >>
        /\ UNCHANGED << inputs, clients, pc, contractOwner, result, warning, outcome,
                        resolverUsed, addrReadError, netLog, query >>

\* a further block: every included transaction gains a confirmation
AddBlock ==
    /\ \E i \in Included : txs[i].conf < MaxConf
    /\ txs' = [i \in 1..Len(txs) |->
                 IF txs[i].status # "pending" /\ txs[i].conf < MaxConf
                 THEN [txs[i] EXCEPT !.conf = @ + 1] ELSE txs[i]]
    /\ UNCHANGED << inputs, clients, pc, chain, result, warning, outcome, resolverUsed,
                    addrReadError, netLog, query >>

Next ==
    \/ nameContractStart
    \/ checkContractCompatibility
    \/ checkParentOwnership
    \/ createSubname
    \/ createSubnameWait
    \/ setAddressRecordWithCoinType
    \/ setAddressRecordWait
    \/ setReverseResolutionL2
    \/ setReverseResolutionWait
    \/ nameContractSummary
    \/ setTxt
    \/ setTxtConfirm
    \/ setAddress
    \/ setAddressConfirm
    \/ setPrimary
    \/ setPrimaryConfirm
    \/ register
    \/ registerBasename
    \/ registerConfirm
    \/ getResolverAddress
    \/ getResolverFromIndex
    \/ getResolverOnChain
    \/ MineTx
    \/ AddBlock

Spec == Init /\ [][Next]_vars

----------------------------------------------------------------------------
(* The naming workflow on its own.  nameContract is sequential code whose  *)
(* every await returns or throws within the client's timeout, so a run     *)
(* that can take a step of the workflow eventually takes one.              *)

InitNaming ==
    /\ cmd = "name"
    /\ Init

\* the steps of nameContract
Workflow ==
    \/ nameContractStart
    \/ checkContractCompatibility
    \/ checkParentOwnership
    \/ createSubname
    \/ createSubnameWait
    \/ setAddressRecordWithCoinType
    \/ setAddressRecordWait
    \/ setReverseResolutionL2
    \/ setReverseResolutionWait
    \/ nameContractSummary

NextNaming ==
    \/ Workflow
    \/ MineTx
    \/ AddBlock

SpecNaming == InitNaming /\ [][NextNaming]_vars /\ WF_vars(Workflow)

----------------------------------------------------------------------------
(* The node computation on its own: normalizeBasename of src/utils/node.ts *)
(* and the normalizeBasename that tells subnames apart, applied to names   *)
(* of up to MaxLabels labels with and without a parent-domain suffix.      *)

\* labels in the label path of an input
MaxLabels == 2

NodeLabels == {"alice", "Alice", "vault", InvalidLabel}
LabelPaths == UNION { [1..n -> NodeLabels] : n \in 1..MaxLabels }
Suffixes ==
    { << >>, << "basetest", "eth" >>, << "BaseTest", "ETH" >>, << "base", "eth" >> }
NodeInputs == { path \o suffix : path \in LabelPaths, suffix \in Suffixes }

InitNode ==
    /\ cmd = "node"
    /\ opts \in [ name : NodeInputs ]
    /\ network \in NetworkOptions
    /\ walletOk = FALSE
    /\ pc = "start"
    /\ regOwner = [n \in Nodes |-> ZeroAddress]
    /\ regResolver = [n \in AllNodes |-> ZeroAddress]
    /\ addrRec = [r \in Resolvers |-> [n \in {SubnameNode} |-> EmptyBytes]]
    /\ primaryName = ""
    /\ contractOwner = NoOwnerFn
    /\ InitEditRecords
    /\ indexResolver = Null
    /\ txs = << >>
    /\ result = NoResults
    /\ warning = FALSE
    /\ outcome = "running"
    /\ resolverUsed = Null
    /\ addrReadError = FALSE
    /\ netLog = {}
    /\ queryLog = << >>
    /\ answer = Null
    /\ env = NoEnv
    /\ NoClients

\* a caller takes the node of its name from a normalizeBasename
Computed(by, value) ==
    /\ pc' = "done"
    /\ answer' = [ by |-> by, value |-> value ]
    /\ UNCHANGED << inputs, clients, chain, txs, result, warning, outcome, resolverUsed,
                    addrReadError, netLog, indexResolver, queryLog >>

applyNormalizeBasename ==
    /\ cmd = "node" /\ pc = "start"
    /\ Computed("normalizeBasename", normalizeBasename(opts.name, network))

applyNormalizeBasenameNodeTs ==
    /\ cmd = "node" /\ pc = "start"
    /\ Computed("node.ts", normalizeBasenameNodeTs(opts.name, network))

NextNode ==
    \/ applyNormalizeBasename
    \/ applyNormalizeBasenameNodeTs

SpecNode == InitNode /\ [][NextNode]_vars

----------------------------------------------------------------------------
(* The client handles on their own: any sequence of up to MaxRequests     *)
(* requests for a read client or a signer client, under every setting of  *)
(* the RPC environment variables.                                         *)

\* requests in one process
MaxRequests == 3

\* the network argument of a request
NetworkArgs == {Null, DEFAULT_NETWORK, Mainnet}

EnvSettings ==
    [ BASE_RPC_URL_BASE : {Null, "", "https://base.example"},
      BASE_RPC_URL_BASESEPOLIA : {Null, "", "https://sepolia.example"},
      BASE_RPC_URL : {Null, "", "https://rpc.example"},
      BASENAMES_NETWORK : {Null, Mainnet} ]

InitClients ==
    /\ cmd = "clients"
    /\ opts = [ name |-> << "alice" >> ]
    /\ network = Null
    /\ walletOk \in BOOLEAN
    /\ env \in EnvSettings
    /\ NoClients
    /\ pc = "start"
    /\ regOwner = [n \in Nodes |-> ZeroAddress]
    /\ regResolver = [n \in AllNodes |-> ZeroAddress]
    /\ addrRec = [r \in Resolvers |-> [n \in {SubnameNode} |-> EmptyBytes]]
    /\ primaryName = ""
    /\ contractOwner = NoOwnerFn
    /\ InitEditRecords
    /\ indexResolver = Null
    /\ txs = << >>
    /\ result = NoResults
    /\ warning = FALSE
    /\ outcome = "running"
    /\ resolverUsed = Null
    /\ addrReadError = FALSE
    /\ netLog = {}
    /\ queryLog = << >>
    /\ answer = Null

\* the handle a request is answered with
Returned(kind, net, useLedger, handle) ==
    handles' = Append(handles, [ kind |-> kind, network |-> net,
                                 ledger |-> useLedger, handle |-> handle ])

\* getPublicClient(network)
getPublicClient ==
    /\ cmd = "clients" /\ Len(handles) < MaxRequests
    /\ \E arg \in NetworkArgs :
         LET net == resolveNetwork(arg)
         IN  IF ~has(publicClients, net)
             THEN /\ created' = Append(created, createBasenamesPublicClient(net))
                  /\ publicClients' = [publicClients EXCEPT ![net] = Len(created) + 1]
                  /\ Returned("public", net, FALSE, Len(created) + 1)
             ELSE /\ UNCHANGED << created, publicClients >>
                  /\ Returned("public", net, FALSE, publicClients[net])
    /\ UNCHANGED << inputs, chain, txs, result, warning, outcome, resolverUsed,
                    addrReadError, netLog, query, pc, env, walletClients >>

\* getWalletClient(network, useLedger, accountIndex)
getWalletClient ==
    /\ cmd = "clients" /\ Len(handles) < MaxRequests
    /\ \E arg \in NetworkArgs, useLedger \in BOOLEAN, ledgerOk \in BOOLEAN :
         LET net == resolveNetwork(arg)
             fresh == Len(created) + 1
         IN  IF useLedger
             THEN /\ walletClients' = walletClients
                  /\ IF ledgerOk
                     THEN /\ created' = Append(created,
                                               createBasenamesWalletClient(net, TRUE))
                          /\ Returned("wallet", net, TRUE, fresh)
                     ELSE /\ created' = created
                          /\ Returned("wallet", net, TRUE, NoClient)
             ELSE IF has(walletClients, net)
             THEN /\ UNCHANGED << created, walletClients >>
                  /\ Returned("wallet", net, FALSE, walletClients[net])
             ELSE IF walletOk
             THEN /\ created' = Append(created, createBasenamesWalletClient(net, FALSE))
                  /\ walletClients' = [walletClients EXCEPT ![net] = fresh]
                  /\ Returned("wallet", net, FALSE, fresh)
             ELSE /\ UNCHANGED << created, walletClients >>
                  /\ Returned("wallet", net, FALSE, NoClient)
    /\ UNCHANGED << inputs, chain, txs, result, warning, outcome, resolverUsed,
                    addrReadError, netLog, query, pc, env, publicClients >>

NextClients ==
    \/ getPublicClient
    \/ getWalletClient

SpecClients == InitClients /\ [][NextClients]_vars

----------------------------------------------------------------------------
(* Properties of the naming workflow *)

StageTxs(s) == {i \in 1..Len(txs) : txs[i].stage = s}
BeforeStage2 == {"start", "compat", "step1"}
Proceeded == {"ok", "noop", "submitted"}

\* authoritative forward resolution of the subname: the registry's resolver
\* of the child node, then the address record on that resolver
ForwardResolution ==
    IF regResolver[SubnameNode] = ZeroAddress THEN Null
    ELSE addrRec[regResolver[SubnameNode]][SubnameNode]

\* C1: when the registry owner of the parent node is not the signer (also
\* when the parent has no owner) the workflow aborts at stage 1: it submits
\* no transaction and starts none of the stages 2, 3 and 4.
C1_AbortsAtStage1 ==
    (cmd = "name" /\ regOwner[ParentNode] # Signer) =>
        /\ txs = << >>
        /\ \A s \in 2..4 : result[s] = "none"
        /\ pc \in BeforeStage2 \cup {"done"}
        /\ result[1] \in {"none", "failed"}
        /\ pc = "done" =>
              \/ outcome = "rejected"
              \/ outcome = "aborted" /\ result[1] = "failed"

C1_Witness ==
    /\ cmd = "name" /\ walletOk
    /\ regOwner[ParentNode] = ZeroAddress
    /\ pc = "done" /\ outcome = "aborted" /\ result[1] = "failed"

\* C2 (as claimed): once stage 2 has run on a child node owned by a party
\* other than the signer, the workflow has aborted at stage 2 and no
\* transaction was submitted.
C2_ConflictAborts ==
    (cmd = "name" /\ regOwner[SubnameNode] = Other /\ pc \notin BeforeStage2 \cup {"step2"}) =>
        /\ txs = << >>
        /\ pc = "done" /\ outcome \in {"rejected", "aborted"}
        /\ result[3] = "none" /\ result[4] = "none"

\* C3 (as claimed): createSubname submits no setSubnodeRecord transaction
\* while the child node is owned by the signer.
C3_NoopWhenOwned ==
    cmd = "name" =>
        \A i \in StageTxs(2) :
            txs[i].status = "pending" => regOwner[SubnameNode] # Signer

C5_Stage3ReadErrorFatal ==
    (cmd = "name" /\ addrReadError) =>
        /\ pc = "done" /\ outcome = "aborted" /\ result[3] = "failed"
        /\ StageTxs(3) = {} /\ result[4] = "none"

\* C6 (as claimed): after the workflow reports overall success, forward
\* resolution of the subname through the registry's resolver of the child
\* node yields the contract address.
C6_ForwardResolves ==
    (cmd = "name" /\ outcome = "complete") => ForwardResolution = ContractAddr

StageOf(p) ==
    CASE p \in {"step2", "wait2"} -> 2
      [] p \in {"step3", "wait3"} -> 3
      [] p \in {"step4", "wait4", "summary"} -> 4
      [] OTHER -> 1

C8_StagesWaitForConfirmation ==
    cmd = "name" =>
        /\ \A s \in 2..4 : result[s] # "none" => result[s - 1] \in Proceeded
        /\ pc # "done" =>
              /\ \A s \in Stages : s > StageOf(pc) => result[s] = "none"
              /\ \A s \in Stages : s < StageOf(pc) => result[s] \in Proceeded
              /\ \A i \in 1..Len(txs) :
                    txs[i].stage < StageOf(pc) =>
                        txs[i].status # "pending" /\ txs[i].conf >= CONFIRMATIONS
        /\ \A i, j \in 1..Len(txs) :
              i < j => /\ txs[i].stage < txs[j].stage
                       /\ txs[i].status # "pending"
                       /\ txs[i].conf >= CONFIRMATIONS

C8_Witness ==
    /\ cmd = "name" /\ pc = "wait3" /\ result[2] = "submitted"
    /\ Len(txs) = 2 /\ txs[1].stage = 2 /\ txs[1].conf >= CONFIRMATIONS
    /\ txs[2].status = "pending"

\* C9 (as claimed): every record write (text, address, primary name) that is
\* submitted was simulated before its submission.
RecordWrites == {SetText, SetAddr, SetAddrCoinType, SetNameForAddr}

C9_WritesSimulated ==
    \A i \in 1..Len(txs) : txs[i].fn \in RecordWrites => txs[i].simulated

\* C10 (as claimed): a write whose mined receipt indicates failure is never
\* reported as success: an edit command reports success, and a workflow stage
\* reports "submitted", only for a transaction whose receipt is successful.
C10_RevertReported ==
    /\ (cmd \in EditCmds /\ outcome = "success") => LastTx.status = "success"
    /\ cmd = "name" =>
          \A s \in 2..4 : result[s] = "submitted" =>
              \E i \in StageTxs(s) : txs[i].status = "success"

----------------------------------------------------------------------------
(* Properties of the edit commands *)

\* C11: a text or address write with no resolver supplied goes to the
\* resolver the registry holds for the node; when the registry holds none
\* the command submits no transaction and ends with the no-resolver error
\* (or an earlier error), never with a write to another resolver.
C11_NoResolverNoWrite ==
    (cmd \in {"editTxt", "editAddress"} /\ opts.resolverAddress = Null) =>
        /\ \A i \in 1..Len(txs) :
              /\ regResolver[txs[i].node] # ZeroAddress
              /\ txs[i].to = regResolver[txs[i].node]
        /\ regResolver[EditNode] = ZeroAddress =>
              /\ txs = << >>
              /\ pc = "done" => outcome \in {"noResolver", "error"}

C11_Witness ==
    /\ cmd = "editTxt" /\ opts.resolverAddress = Null /\ walletOk
    /\ regResolver[EditNode] = ZeroAddress
    /\ Step("read", Null) \in netLog
    /\ pc = "done" /\ outcome = "noResolver" /\ txs = << >>

\* C12 (as claimed): every step of an operation (node computation, registry
\* and resolver reads, transaction submission, confirmation wait) runs
\* against the network the operation was invoked with, and against the
\* default network only when none was given.
C12_StepsOnRequestedNetwork ==
    \A e \in netLog : e.network = getNetworkConfig(network)

----------------------------------------------------------------------------
(* Properties of the resolver lookup *)

\* the node of the looked-up name and the resolver the registry holds for it
LookupNode == normalizeBasename(opts.name, network).node
Authoritative == regResolver[LookupNode]
IndexQueried == Len(queryLog) >= 1

\* C13: a failure of the indexed service (timeout, transport error, or a
\* response without a resolver) is never the lookup's error: the lookup goes
\* on to the registry read, and it ends in an error only when that read
\* failed.
C13_IndexFailureAbsorbed ==
    (cmd = "resolver" /\ IndexQueried /\ queryLog[1].outcome # "value") =>
        /\ pc \in {"onchain", "done"}
        /\ pc = "done" =>
              /\ Len(queryLog) = 2
              /\ queryLog[2].source = "registry"
              /\ outcome = "error" => queryLog[2].outcome # "ok"

C13_Witness ==
    /\ cmd = "resolver" /\ pc = "done"
    /\ Len(queryLog) = 2 /\ queryLog[1].outcome = "transport"
    /\ queryLog[2].source = "registry"
    /\ outcome = "onchain" /\ answer = Authoritative

\* C14 (as claimed): when the indexed service timed out, a finished lookup
\* has returned the registry's resolver if the registry holds one, and
\* not-found if it holds none; a registry read that failed ends the lookup
\* in an error.
C14_FallbackReturnsOnChainValue ==
    (cmd = "resolver" /\ pc = "done" /\ IndexQueried /\ queryLog[1].outcome = "timeout") =>
        IF Authoritative # ZeroAddress
        THEN \/ outcome = "onchain" /\ answer = Authoritative
             \/ outcome = "error"
        ELSE outcome \in {"notFound", "error"}

\* C15: the index is queried first and the registry second; the registry
\* read is issued only after an index query that gave no resolver, and a
\* resolver from the index ends the lookup at once, with no registry read.
C15_IndexThenRegistry ==
    cmd = "resolver" =>
        /\ Len(queryLog) <= 2
        /\ pc = "onchain" => Len(queryLog) = 1
        /\ IndexQueried => queryLog[1].source = "index"
        /\ Len(queryLog) = 2 =>
              queryLog[2].source = "registry" /\ queryLog[1].outcome # "value"
        /\ (IndexQueried /\ queryLog[1].outcome = "value") =>
              /\ Len(queryLog) = 1 /\ pc = "done"
              /\ outcome = "fromIndex" /\ answer = indexResolver

C15_Witness ==
    /\ cmd = "resolver" /\ pc = "done" /\ outcome = "fromIndex"
    /\ Len(queryLog) = 1 /\ queryLog[1].outcome = "value"
    /\ answer = indexResolver /\ indexResolver \in Resolvers

\* C16 (as claimed): when the index and the registry hold different
\* resolvers for the name, the resolver a lookup returns is the registry's.
C16_AuthoritativeWins ==
    ( /\ cmd = "resolver" /\ pc = "done" /\ answer # Null
      /\ indexResolver # Null /\ Authoritative # ZeroAddress
      /\ indexResolver # Authoritative ) =>
        answer = Authoritative

\* C17 (as claimed): a registry read that failed ends the lookup in an
\* error, never in not-found.
C17_ReadFailurePropagated ==
    cmd = "resolver" =>
        \A i \in 1..Len(queryLog) :
            (queryLog[i].source = "registry" /\ queryLog[i].outcome # "ok") =>
                outcome = "error"

----------------------------------------------------------------------------
(* Properties of the node computation *)

\* the standard recursive scheme: from the empty root, each label from the
\* right is hashed onto the node so far
StandardNode(name) == [i \in 1..Len(name) |-> name[Len(name) + 1 - i]]

\* the suffixes with which an input names the active network's parent domain
ParentSuffixes ==
    { suffix \in Suffixes :
        suffix = << >> \/ toLowerCaseLabels(suffix) = parentDomain(network) }

Normalizes(path) == \A i \in 1..Len(path) : normalize(path[i]) # Throw
Normalized(path) == [i \in 1..Len(path) |-> normalize(path[i])]

\* C18: for a top-level name, given as the bare label or with the parent
\* domain of the active network as suffix, the computed node is
\* hash(parentDomainNode || hash(normalizedLabel)), parentDomainNode being
\* the standard recursive hash of that network's parent domain.
C18_TopLevelNode ==
    (cmd = "node" /\ pc = "done") =>
        \A label \in NodeLabels, suffix \in ParentSuffixes :
            (opts.name = << label >> \o suffix /\ normalize(label) # Throw) =>
                /\ ~answer.value.threw
                /\ answer.value.node =
                     Append(StandardNode(parentDomain(network)), normalize(label))

C18_Witness ==
    /\ cmd = "node" /\ pc = "done" /\ network = Mainnet
    /\ opts.name = << "Alice", "base", "eth" >>
    /\ answer.by = "node.ts"
    /\ answer.value.node = << "eth", "base", "alice" >>

\* C19 (as claimed): for a subname of two or more labels under the parent
\* domain, the computed node is the standard recursive scheme applied to
\* all its labels and the parent domain.
C19_SubnameNode ==
    (cmd = "node" /\ pc = "done") =>
        \A path \in LabelPaths, suffix \in ParentSuffixes :
            (opts.name = path \o suffix /\ Len(path) >= 2 /\ Normalizes(path)) =>
                /\ ~answer.value.threw
                /\ answer.value.node =
                     StandardNode(Normalized(path) \o parentDomain(network))

----------------------------------------------------------------------------
(* Properties of name validation *)

\* the calls a command has made to the index or the chain: every logged
\* step but the node computation, which is local
NetworkCalls == {e \in netLog : e.step # "node"}

HasInvalidLabel(name) == \E i \in 1..Len(name) : normalize(name[i]) = Throw

\* C20 (as claimed): for a name with a label that fails normalization the
\* naming workflow, register, the edit commands and the resolver lookup
\* issue no index query, no on-chain read and no transaction.
C20_InvalidNameRejected ==
    /\ (cmd = "name" /\ ~opts.validName) =>
          NetworkCalls = {} /\ txs = << >>
    /\ (cmd \in EditCmds \cup {"register", "resolver"} /\ HasInvalidLabel(opts.name)) =>
          /\ NetworkCalls = {} /\ txs = << >> /\ queryLog = << >>
          /\ pc = "done" => outcome = "error"

----------------------------------------------------------------------------
(* Properties of stages 3 and 4 of the naming workflow *)

\* hierarchical resolution: the child's own resolver when the registry has
\* one, else the parent's, else the public resolver of the network
EffectiveResolver ==
    IF regResolver[SubnameNode] # ZeroAddress THEN regResolver[SubnameNode]
    ELSE IF regResolver[ParentNode] # ZeroAddress THEN regResolver[ParentNode]
    ELSE PublicResolver

\* C21 (as claimed): the resolver stage 3 reads and writes the address
\* record on is the child node's own resolver when the registry has one for
\* the child, and the parent's resolver only otherwise.
C21_ChildResolverFirst ==
    (cmd = "name" /\ resolverUsed # Null) =>
        /\ resolverUsed = EffectiveResolver
        /\ \A i \in StageTxs(3) : txs[i].to = EffectiveResolver

\* C22 (as claimed): stage 3 submits no transaction while the address record
\* of the child node, on the resolver stage 3 resolved, already equals the
\* target contract address.
C22_NoopWhenAddressSet ==
    cmd = "name" =>
        \A i \in StageTxs(3) :
            txs[i].status = "pending" =>
                addrRec[txs[i].to][SubnameNode] # ContractAddr

\* C23: with --no-reverse the step that takes the workflow out of stage 4
\* makes no read and submits nothing, marks the stage skipped and goes to
\* the summary; the workflow never holds a reverse-registrar transaction,
\* never warns, and once stage 3 has succeeded it ends in overall success.
C23_SkipReverse ==
    [][ (cmd = "name" /\ opts.noReverse) =>
          /\ (pc = "step4" /\ pc' # pc) =>
                /\ pc' = "summary"
                /\ result'[4] = "skipped"
                /\ netLog' = netLog
                /\ txs' = txs
          /\ \A i \in 1..Len(txs') : txs'[i].stage # 4
          /\ pc' # "wait4"
          /\ ~warning'
          /\ result'[4] \in {"none", "skipped"}
          /\ (pc' = "done" /\ result'[3] \in Proceeded) =>
                outcome' = "complete" /\ result'[4] = "skipped" ]_vars

C23_Witness ==
    /\ cmd = "name" /\ opts.noReverse
    /\ pc = "done" /\ outcome = "complete"
    /\ result[3] = "submitted" /\ result[4] = "skipped"
    /\ Len(txs) = 2 /\ primaryName = "" /\ contractOwner = Signer

\* C24 (as claimed): stage 4 submits no transaction while the primary-name
\* record of the target contract already equals the subname's full name.
C24_NoopWhenPrimarySet ==
    cmd = "name" =>
        \A i \in StageTxs(4) :
            txs[i].status = "pending" =>
                toLowerCase(primaryName) # toLowerCase(FullName)

----------------------------------------------------------------------------
(* Properties of the register command *)

RegisteredNode == normalizeBasenameNodeTs(opts.name, networkArg).node
CheckedAvailable == [ source |-> "available", outcome |-> "true" ]

\* C25 (as claimed): once a registration is reported as confirmed and
\* successful, the address record of the name on its registry resolver
\* equals the owner, and with the primary flag the owner's reverse record
\* equals the full name.
C25_RegisteredRecords ==
    (cmd = "register" /\ pc = "done" /\ outcome = "success") =>
        /\ regResolver[RegisteredNode] # ZeroAddress
        /\ ethAddrRec[regResolver[RegisteredNode]] = Signer
        /\ opts.primary => signerPrimary = registeredName(networkArg)

\* C26: the availability check is the first read of a register run; a
\* price query is issued and a register transaction submitted only after
\* it returned true, and a run whose check returned false or failed ends
\* there, with no price query and no transaction.
C26_AvailabilityFirst ==
    cmd = "register" =>
        /\ Len(queryLog) >= 1 => queryLog[1].source = "available"
        /\ \A i \in 1..Len(queryLog) :
              queryLog[i].source = "registerPrice" =>
                  i > 1 /\ queryLog[1] = CheckedAvailable
        /\ txs # << >> =>
              /\ Len(queryLog) >= 1 /\ queryLog[1] = CheckedAvailable
              /\ \A i \in 1..Len(txs) : txs[i].fn = Register
        /\ (Len(queryLog) >= 1 /\ queryLog[1] # CheckedAvailable) =>
              /\ Len(queryLog) = 1 /\ txs = << >> /\ pc = "done"
              /\ outcome = IF queryLog[1].outcome = "false"
                           THEN "unavailable" ELSE "error"

C26_Witness ==
    /\ cmd = "register" /\ pc = "done" /\ outcome = "success"
    /\ Len(queryLog) = 3 /\ queryLog[1] = CheckedAvailable
    /\ queryLog[2].source = "registerPrice"
    /\ Len(txs) = 1 /\ txs[1].status = "success" /\ ~available

----------------------------------------------------------------------------
(* Properties of the reverse-registrar calls and of edit txt *)

\* the two calling conventions of setNameForAddr
SetNameForAddrL2 == "setNameForAddr(address,string)"
SetNameForAddrVariants == {SetNameForAddr, SetNameForAddrL2}

\* the convention the reverse registrar of a network takes: four arguments
\* on Base Sepolia, the two arguments of the L2 reverse registrar on Base
RequiredVariant(net) ==
    IF getNetworkConfig(net) = Mainnet THEN SetNameForAddrL2 ELSE SetNameForAddr

SetNameCalls == {i \in 1..Len(txs) : txs[i].fn \in SetNameForAddrVariants}

\* C28 (as claimed): every setNameForAddr call uses the calling convention
\* of the network the call goes to, and a run makes at most one such call,
\* never a second one with the other convention.
C28_ArityFromNetwork ==
    /\ \A i \in SetNameCalls : txs[i].fn = RequiredVariant(networkArg)
    /\ Cardinality(SetNameCalls) <= 1

\* C30: edit txt with the value "null" or the empty string submits setText
\* with the empty string, and with any other value submits that value.
C30_ClearWritesEmpty ==
    cmd = "editTxt" =>
        \A i \in 1..Len(txs) :
            /\ txs[i].fn = SetText
            /\ txs[i].value = IF opts.value \in {"null", ""} THEN "" ELSE opts.value

C30_Witness ==
    /\ cmd = "editTxt" /\ opts.value = "null"
    /\ pc = "done" /\ outcome = "success"
    /\ Len(txs) = 1 /\ txs[1].fn = SetText /\ txs[1].value = ""

----------------------------------------------------------------------------
(* Properties of the client handles *)

ClientKinds == {"public", "wallet"}
Created(kind, net) ==
    {i \in 1..Len(created) : created[i].kind = kind /\ created[i].network = net}
Requests(kind, net) ==
    {i \in 1..Len(handles) : handles[i].kind = kind /\ handles[i].network = net}

\* C27 (as claimed): for each network at most one read client and at most
\* one signer client is constructed, and once a request for a network was
\* given a handle every later request for it is given the same handle.
C27_ClientsMemoized ==
    \A net \in Networks, kind \in ClientKinds :
        /\ Cardinality(Created(kind, net)) <= 1
        /\ \A i, j \in Requests(kind, net) :
              (i < j /\ handles[i].handle # NoClient) =>
                  handles[j].handle = handles[i].handle

\* C27 (amended): per network at most one read client and at most one
\* private-key signer client is constructed, and every request for it is
\* answered with that one handle (with no handle, and nothing cached, when
\* no private key is set); a hardware-signer request is answered with a
\* client constructed for it alone, never one cached or handed out before.
C27_KeyClientsMemoized ==
    \A net \in Networks :
        /\ Cardinality(Created("public", net)) <= 1
        /\ Cardinality({i \in Created("wallet", net) : ~created[i].ledger}) <= 1
        /\ \A i \in Requests("public", net) :
              /\ handles[i].handle = publicClients[net]
              /\ handles[i].handle \in Created("public", net)
        /\ \A i \in Requests("wallet", net) :
              IF handles[i].ledger
              THEN handles[i].handle # NoClient =>
                      /\ handles[i].handle \in Created("wallet", net)
                      /\ created[handles[i].handle].ledger
                      /\ handles[i].handle # walletClients[net]
                      /\ \A j \in 1..Len(handles) :
                            j # i => handles[j].handle # handles[i].handle
              ELSE /\ handles[i].handle = walletClients[net]
                   /\ IF walletOk
                      THEN /\ handles[i].handle \in Created("wallet", net)
                           /\ ~created[handles[i].handle].ledger
                      ELSE handles[i].handle = NoClient

C27_Witness ==
    /\ cmd = "clients" /\ Len(handles) = 3 /\ Len(created) = 2
    /\ \A i \in 1..3 : handles[i].kind = "wallet" /\ handles[i].network = Mainnet
    /\ ~handles[1].ledger /\ ~handles[2].ledger /\ handles[3].ledger
    /\ handles[1].handle = 1 /\ handles[2].handle = 1 /\ handles[3].handle = 2
    /\ walletClients[Mainnet] = 1

\* an environment variable is set: present and not empty
IsSet(v) == v # Null /\ v # ""

SpecificUrl(net) ==
    IF net = Mainnet THEN env.BASE_RPC_URL_BASE ELSE env.BASE_RPC_URL_BASESEPOLIA

\* C29: every client is constructed with the network-specific URL of its
\* network if that is set, otherwise with the generic URL if that is set,
\* otherwise with the default of the network configuration, and never with
\* the network-specific URL of the other network.
C29_RpcUrlPriority ==
    \A i \in 1..Len(created) :
        LET net == created[i].network
        IN  /\ created[i].rpcUrl =
                  IF IsSet(SpecificUrl(net)) THEN SpecificUrl(net)
                  ELSE IF IsSet(env.BASE_RPC_URL) THEN env.BASE_RPC_URL
                  ELSE configRpcUrl(net)
            /\ \A other \in Networks \ {net} :
                  IsSet(SpecificUrl(other)) => created[i].rpcUrl # SpecificUrl(other)

C29_Witness ==
    /\ cmd = "clients" /\ Len(created) = 2
    /\ IsSet(env.BASE_RPC_URL_BASE) /\ IsSet(env.BASE_RPC_URL)
    /\ IsSet(env.BASE_RPC_URL_BASESEPOLIA)
    /\ created[1].network = Mainnet /\ created[1].rpcUrl = env.BASE_RPC_URL_BASE
    /\ created[2].network = DEFAULT_NETWORK /\ created[2].kind = "wallet"
    /\ created[2].rpcUrl = env.BASE_RPC_URL_BASESEPOLIA

----------------------------------------------------------------------------
(* Properties of the two derivation rules *)

\* the input names one label under the parent domain of the active network
OneLabel == Len(extractLabel(opts.name, network)) = 1

\* C32: for a name of exactly one label under the parent domain, the node
\* of the basename formula hash(parentDomainNode || hash(label)) is the
\* standard recursive namehash of the full name; the two rules can differ
\* only for names of two or more labels.
C32_OneLabelRulesAgree ==
    (cmd = "node" /\ pc = "done" /\ ~answer.value.threw /\ OneLabel) =>
        answer.value.node = namehash(answer.value.fullName)

C32_Witness ==
    /\ cmd = "node" /\ pc = "done" /\ network = Null
    /\ opts.name = << "Alice", "BaseTest", "ETH" >>
    /\ answer.by = "normalizeBasename"
    /\ answer.value.fullName = << "alice", "basetest", "eth" >>
    /\ answer.value.node = << "eth", "basetest", "alice" >>

----------------------------------------------------------------------------
(* Properties of the naming workflow as a whole *)

\* the full name the workflow prints: `${normalizedLabel}.${parentDomain}`
WorkflowName == << Label >> \o ParentDomain

\* the transactions of stages 2 and 3, which create and fill the child node
ChildWrites == { i \in 1..Len(txs) : cmd = "name" /\ txs[i].stage \in {2, 3} }

\* C33 (as claimed): the child node the workflow creates and writes the
\* address record for is the node that normalizeBasename yields for the
\* resulting full name label.parent, so the record is found when that name
\* is resolved.
C33_WorkflowNodeResolves ==
    (network = Null) =>
        \A i \in ChildWrites :
            /\ normalizeBasename(WorkflowName, network).node = txs[i].node
            /\ normalizeBasenameNodeTs(WorkflowName, network).node = txs[i].node

\* C34 (as claimed): a failed owner read is never taken for 'unowned':
\* createSubname submits setSubnodeRecord only while the child node has no
\* owner, and no step of the workflow takes a child node away from a third
\* party that owns it.
C34_ThirdPartyChildKept ==
    [][ cmd = "name" =>
          /\ (pc = "step2" /\ Len(txs') > Len(txs)) =>
                regOwner[SubnameNode] = ZeroAddress
          /\ regOwner[SubnameNode] = Other => regOwner'[SubnameNode] = Other
      ]_vars

\* C35: one run of the workflow submits no transaction in stage 1, at most
\* one in each of the stages 2, 3 and 4, in that order, and so at most
\* three in all; no stage submits a second time.
C35_OneTxPerStage ==
    cmd = "name" =>
        /\ StageTxs(1) = {}
        /\ \A s \in 2..4 : Cardinality(StageTxs(s)) <= 1
        /\ Len(txs) <= 3
        /\ \A i, j \in 1..Len(txs) : i < j => txs[i].stage < txs[j].stage

C35_Witness ==
    /\ cmd = "name" /\ pc = "done" /\ outcome = "complete"
    /\ Len(txs) = 3
    /\ \A s \in 2..4 : result[s] = "submitted" /\ Cardinality(StageTxs(s)) = 1

\* the chain as a fully successful run with --no-reverse leaves it: the
\* signer owns parent and child, the child has the resolver stage 2 gave
\* it, and that resolver holds the contract's address for the child
AfterSuccessfulRun ==
    LET resolver == getResolverFromParent(ParentNode, "ok")
    IN  /\ regOwner[ParentNode] = Signer
        /\ regOwner[SubnameNode] = Signer
        /\ regResolver[SubnameNode] = resolver
        /\ addrRec[resolver][SubnameNode] = ContractAddr

\* no transaction of this run has changed the chain yet
ChainAsFound == \A i \in 1..Len(txs) : txs[i].status # "success"

\* C36 (as claimed): a second run with the same arguments on the chain
\* state a fully successful run left submits no transaction, and when it
\* reports success every stage is reported as no-op or skipped.
C36_RerunIdempotent ==
    (cmd = "name" /\ walletOk /\ opts.noReverse /\ AfterSuccessfulRun /\ ChainAsFound) =>
        /\ txs = << >>
        /\ (pc = "done" /\ outcome = "complete") =>
              result = << "ok", "noop", "noop", "skipped" >>

\* the child node by the standard recursive scheme
ChildNode == StandardNode(WorkflowName)

\* C37: the workflow writes only to the child node and to the reverse
\* record of the target contract: no step of a run changes the owner or
\* the resolver of the parent node or of another node, or a record the
\* workflow does not name, every transaction addresses the child node or
\* the contract, and a child node whose owner changes, or whose stage-2
\* transaction has succeeded, is owned by the signer.
C37_WritesOnlyChild ==
    [][ cmd = "name" =>
          /\ \A i \in 1..Len(txs') :
                /\ IF txs'[i].stage = 4 THEN txs'[i].node = ContractAddr
                   ELSE txs'[i].node = ChildNode
                /\ (txs'[i].stage = 2 /\ txs'[i].status = "success") =>
                      regOwner'[ChildNode] = Signer
          /\ \A n \in DOMAIN regOwner :
                regOwner'[n] # regOwner[n] => (n = ChildNode /\ regOwner'[n] = Signer)
          /\ \A n \in DOMAIN regResolver :
                regResolver'[n] # regResolver[n] => n = ChildNode
          /\ UNCHANGED << textRec, ethAddrRec, signerPrimary, available, contractOwner >>
      ]_vars

C37_Witness ==
    /\ cmd = "name" /\ pc = "done" /\ outcome = "complete"
    /\ Len(txs) = 3 /\ \A i \in 1..3 : txs[i].status = "success"
    /\ regOwner[SubnameNode] = Signer /\ regOwner[ParentNode] = Signer
    /\ regResolver[ParentNode] = ZeroAddress
    /\ regResolver[SubnameNode] = PublicResolver
    /\ primaryName = FullName

\* the results of a run that stage s ended
AbortedAt(s) ==
    /\ result[s] = "failed"
    /\ \A t \in Stages : t < s => result[t] \in Proceeded
    /\ \A t \in Stages : t > s => result[t] = "none"

\* the results of a run that went through all four stages
Completed ==
    /\ \A s \in 1..3 : result[s] \in Proceeded
    /\ result[4] \in {"submitted", "noop", "skipped", "failed"}
    /\ result[4] = "failed" <=> warning

----------------------------------------------------------------------------
(* Properties of the coin type *)

\* bitwise or of two naturals below 2^16
RECURSIVE BitOr(_, _)
BitOr(a, b) ==
    IF a = 0 THEN b
    ELSE IF b = 0 THEN a
    ELSE 2 * BitOr(a \div 2, b \div 2) + (IF a % 2 = 1 \/ b % 2 = 1 THEN 1 ELSE 0)

\* 0x80000000 | id, in 16-bit limbs
ChainCoinType(id) == << BitOr(32768, id \div 65536), BitOr(0, id % 65536) >>

\* the chain a network's transactions are sent to
ChainOf(net) == IF net = Mainnet THEN 8453 ELSE 84532

\* the addr(node, coinType) reads and the setAddr transactions of stage 3
AddrReads == { e \in netLog : e.step = "addr" }

\* C39: the coin type of each configured network is 0x80000000 | chainId,
\* 2147492101 for chain 8453 and 2147568180 for chain 84532, and stage 3
\* reads and writes the address record under the coin type of the network
\* its transaction is sent to.
C39_CoinTypeOfNetwork ==
    /\ \A net \in Networks : getCoinType(net) = ChainCoinType(chainId(net))
    /\ cmd = "name" =>
          /\ \A e \in AddrReads :
                /\ e.network = getNetworkConfig(network)
                /\ e.coinType = ChainCoinType(ChainOf(e.network))
          /\ \A i \in StageTxs(3) :
                /\ txs[i].chainId = ChainOf(getNetworkConfig(network))
                /\ txs[i].coinType = ChainCoinType(txs[i].chainId)
                /\ \E e \in AddrReads : e.coinType = txs[i].coinType

C39_Witness ==
    /\ cmd = "name" /\ network = Mainnet
    /\ \E i \in StageTxs(3) :
          /\ txs[i].status = "success"
          /\ txs[i].chainId = 8453
          /\ txs[i].coinType = << 32768, 8453 >>
    /\ [ step |-> "addr", network |-> Mainnet, coinType |-> << 32768, 8453 >> ] \in netLog

====
